---- MODULE Spec2Model ----
(***************************************************************************)
(* Model of start-stop-restart-services.py: the resolution-and-dispatch    *)
(* pipeline (main, get_instance_ids_by_name) and the behaviour of the two  *)
(* generated scripts (build_linux_script, build_windows_script) when they  *)
(* run on a target.                                                        *)
(*                                                                         *)
(* Strings that the code splits, strips or greps are sequences of          *)
(* one-character strings; strings that are only compared are TLA+ strings. *)
(***************************************************************************)
EXTENDS Integers, Sequences, FiniteSets

VARIABLES
    \* ---- the pipeline (main) ----
    servers,        \* os.getenv("server_names"): [present, val]
    services,       \* os.getenv("Service"):      [present, val]
    action,         \* os.getenv("Action"):       [present, val]
    inventory,      \* the EC2 fleet: id -> [name, host, state]
    pc,             \* position in main
    server_list,    \* main's server_list
    reservations,   \* get_instance_ids_by_name's reservations
    instance_ids,   \* main's instance_ids, in iteration order
    idx,            \* position of the for loop in instance_ids
    info,           \* main's info: the Platform attribute of the last record returned
    platform,       \* main's platform (of the last instance looked up)
    script,         \* main's script (for the current instance)
    document,       \* main's document (for the current instance)
    queries,        \* tag queries issued to EC2: sequence of [filter, values, result]
    lookups,        \* describe_instances(InstanceIds=..) calls: [id, result]
    submissions,    \* ssm.send_command calls: [targets, document, script, result]
    outcomes,       \* per-instance outcome lines printed: [id, status]
    report,         \* what the run reported when it ended early
    exitCode,       \* process exit status, -1 while running
    \* ---- a generated script running on a target ----
    platformAttr,   \* the target's Platform attribute
    running,        \* the script being run ([shell, services, action])
    spc,            \* position in the script
    todo,           \* items of the script's loop still to process
    units,          \* the target's services: name -> "absent" | "running" | "stopped"
    units0,         \* the target's services when the script started
    ops,            \* service-manager operations issued: [op, name, ok]
    said,           \* lines written by the script: [msg, name]
    \* ---- the dispatch loop applied to one fleet in two orders ----
    trial,          \* [det, sub, orderA, orderB]: per-instance results, two orders
    trialOut,       \* [a, b]: the outcome lines of the two runs
    trialDone       \* the runs that have been made, a subset of {"A", "B"}

pvars == <<servers, services, action, inventory, pc, server_list, reservations,
           instance_ids, idx, info, platform, script, document, queries, lookups, submissions,
           outcomes, report, exitCode>>
svars == <<platformAttr, running, spc, todo, units, units0, ops, said>>
tvars == <<trial, trialOut, trialDone>>
vars == <<pvars, svars, tvars>>

----------------------------------------------------------------------------
\* Bounds of the model.

\* Number of instances in the fleet inventory.
NumInstances == 3
\* Longest service-list string given to a script run.
MaxLen == 3

----------------------------------------------------------------------------
\* String helpers (Python's str.split / str.strip, the shell's field
\* splitting, PowerShell's -split, grep's substring match, lower()).

RECURSIVE SplitOn(_, _)
\* s.split(sep) / "s" -split "sep": the pieces between separators, empty
\* pieces kept; the split of the empty string is one empty piece.
SplitOn(s, sep) ==
    IF \A i \in 1..Len(s) : s[i] # sep
    THEN <<s>>
    ELSE LET k == CHOOSE i \in 1..Len(s) :
                      s[i] = sep /\ \A j \in 1..(i - 1) : s[j] # sep
         IN <<SubSeq(s, 1, k - 1)>> \o SplitOn(SubSeq(s, k + 1, Len(s)), sep)

RECURSIVE Strip(_)
\* s.strip(): leading and trailing blanks removed.
Strip(s) ==
    IF s = <<>> THEN s
    ELSE IF Head(s) = " " THEN Strip(Tail(s))
    ELSE IF s[Len(s)] = " " THEN Strip(SubSeq(s, 1, Len(s) - 1))
    ELSE s

RECURSIVE NonEmpty(_)
\* The non-empty items of a sequence of strings, in order.
NonEmpty(ss) ==
    IF ss = <<>> THEN <<>>
    ELSE IF Head(ss) = <<>> THEN NonEmpty(Tail(ss))
    ELSE <<Head(ss)>> \o NonEmpty(Tail(ss))

\* [s.strip() for s in servers.split(",") if s.strip()]
ParseServers(s) ==
    LET parts == SplitOn(s, ",")
    IN NonEmpty([i \in 1..Len(parts) |-> Strip(parts[i])])

\* The shell's field splitting of an unquoted $services (IFS blanks):
\* blank-separated words, no empty words.
ShellWords(s) == NonEmpty(SplitOn(s, " "))

\* PowerShell's "..." -split ",": comma-separated items, empty items kept.
PowerShellItems(s) == SplitOn(s, ",")

\* grep -q "needle": needle occurs somewhere in the line.
Contains(line, needle) ==
    \E i \in 1..(Len(line) - Len(needle) + 1) :
        SubSeq(line, i, i + Len(needle) - 1) = needle

\* str.lower() on the atoms the model compares.
Lower(s) ==
    CASE s = "Windows" -> "windows"
      [] s = "Linux" -> "linux"
      [] s = "Start" -> "start"
      [] OTHER -> s

Range(f) == {f[i] : i \in DOMAIN f}

----------------------------------------------------------------------------
\* Inputs of a run: the configuration and the fleet.

\* An environment variable that is not set (os.getenv returns None).
Unset == [present |-> FALSE, val |-> <<>>]
Str(v) == [present |-> TRUE, val |-> v]
UnsetAtom == [present |-> FALSE, val |-> ""]

\* Values of server_names: unset, empty, blanks and commas only, one name,
\* two names with blanks around them.
ServerInputs ==
    { Unset, Str(<<>>), Str(<<" ", ",">>), Str(<<"w">>),
      Str(<<"w", ",", " ", "g">>) }

\* Values of Service given to a pipeline run (passed through verbatim).
PipelineServiceInputs == { Unset, Str(<<>>), Str(<<"a", ",", "b">>) }

\* The three actions the scripts recognise.
Actions == {"start", "stop", "restart"}

\* Values of Action given to a pipeline run: unset, empty, a recognised
\* action, and one that is not (wrong case).
ActionInputs ==
    { UnsetAtom, [present |-> TRUE, val |-> ""] }
    \cup { [present |-> TRUE, val |-> a] : a \in {"start", "Start"} }

Ids == 1..NumInstances
Tags == { <<"w">>, <<"g">> }
InstanceRecords == [name : Tags, host : Tags, state : {"running", "stopped"}]

\* Instance ids are opaque and the dispatch loop visits the resolved ids in
\* every order, so a fleet and the same fleet with its ids renamed behave
\* alike: the fleets enumerated are the ones whose records are listed in a
\* fixed order (by state, then display name, then host name).
Rank(r) ==
    (IF r.state = "running" THEN 0 ELSE 4)
    + (IF r.name = <<"w">> THEN 0 ELSE 2)
    + (IF r.host = <<"w">> THEN 0 ELSE 1)
Fleets ==
    { f \in [Ids -> InstanceRecords] :
        \A i, j \in Ids : i < j => Rank(f[i]) <= Rank(f[j]) }

\* The reservation an instance was launched in (instances 1 and 2 together,
\* 3 and 4 together, ...).
ReservationOf(i) == (i + 1) \div 2

RECURSIVE Ascending(_)
\* The ids of a set in ascending order.
Ascending(S) ==
    IF S = {} THEN <<>>
    ELSE LET m == CHOOSE x \in S : \A y \in S : x <= y
         IN <<m>> \o Ascending(S \ {m})

\* Whether `tag` is one of the filter's Values.
InValues(tag, values) == \E k \in 1..Len(values) : values[k] = tag

\* The ids the fleet inventory matches for Filters=[{Name: tag:<attr>,
\* Values: values}]: the instances whose tag is one of the values.
Matching(attr, values) ==
    { i \in Ids :
        InValues(IF attr = "tag:Name" THEN inventory[i].name
                 ELSE inventory[i].host, values) }

\* A resolver whose two queries both filter on tag:Name.
DescribeByTagNameOnly(attr, values) ==
    LET hit == Matching("tag:Name", values)
        res == Ascending({ReservationOf(i) : i \in hit})
    IN [r \in 1..Len(res) |->
          LET members == Ascending({i \in hit : ReservationOf(i) = res[r]})
          IN [k \in 1..Len(members) |->
                [InstanceId |-> members[k],
                 State |-> inventory[members[k]].state]]]

\* describe_instances(Filters=...)["Reservations"]: the matching instances
\* grouped by reservation, each with its id and lifecycle state.
DescribeByTag(attr, values) ==
    LET hit == Matching(attr, values)
        res == Ascending({ReservationOf(i) : i \in hit})
    IN [r \in 1..Len(res) |->
          LET members == Ascending({i \in hit : ReservationOf(i) = res[r]})
          IN [k \in 1..Len(members) |->
                [InstanceId |-> members[k],
                 State |-> inventory[members[k]].state]]]

RECURSIVE IdsOfAnyState(_)
\* A nested loop that keeps every instance, whatever its state.
IdsOfAnyState(rs) ==
    IF rs = <<>> THEN <<>>
    ELSE [k \in 1..Len(Head(rs)) |-> Head(rs)[k].InstanceId]
         \o IdsOfAnyState(Tail(rs))

RECURSIVE RunningIds(_)
\* The nested loop of get_instance_ids_by_name: the ids of the instances of
\* the reservations whose state is "running", with repetitions.
RunningIds(rs) ==
    IF rs = <<>> THEN <<>>
    ELSE LET r == Head(rs)
             keep == SelectSeq(r, LAMBDA inst : inst.State = "running")
         IN [k \in 1..Len(keep) |-> keep[k].InstanceId] \o RunningIds(Tail(rs))

\* A resolver that returns the list as collected, repetitions included.
NotDeduplicated(instances) == {instances}

\* list(set(instances)): each id once, in an order the set decides.
Deduplicated(instances) ==
    LET S == Range(instances)
    IN { p \in [1..Cardinality(S) -> S] :
           \A i, j \in 1..Cardinality(S) : i # j => p[i] # p[j] }

\* Whether an except clause catches an exception of the given kind. The
\* calls raise botocore's ClientError (the service answered with an error)
\* or something else (no connection, no credentials, a response without the
\* expected keys).
ErrorKinds == {"ClientError", "OtherError"}
Catches(clause, kind) ==
    \/ clause = "Exception"
    \/ clause = "ClientError" /\ kind = "ClientError"

\* The except clauses of the three guarded calls.
ResolverExcept == "ClientError"
DetectExcept == "Exception"
SubmitExcept == "ClientError"

\* build_windows_script / build_linux_script: the template with its two
\* holes filled.
NoScript == [shell |-> "none", services |-> <<>>, action |-> ""]
build_windows_script(svcs, act) ==
    [shell |-> "powershell", services |-> svcs, action |-> act]
build_linux_script(svcs, act) ==
    [shell |-> "sh", services |-> svcs, action |-> act]

\* info[...].get("Platform", "Linux"): the attribute is absent for a Linux
\* instance and "Windows" (capitalised) for a Windows one.
PlatformAttrs == {"absent", "Windows"}
PlatformOf(attr) == IF attr = "absent" THEN "Linux" ELSE attr

\* The if/else of main that picks the builder and the document.
IsWindows(plat) == Lower(plat) = "windows"
ScriptFor(plat, svcs, act) ==
    IF IsWindows(plat) THEN build_windows_script(svcs, act)
    ELSE build_linux_script(svcs, act)
\* A dispatcher that always picks the shell document.
DocumentForAlwaysShell(plat) == "AWS-RunShellScript"

DocumentFor(plat) ==
    IF IsWindows(plat) THEN "AWS-RunPowerShellScript" ELSE "AWS-RunShellScript"

----------------------------------------------------------------------------
\* The pipeline: main() and get_instance_ids_by_name().

\* No script is running on any target.
ScriptIdle ==
    /\ platformAttr = "absent"
    /\ running = NoScript
    /\ spc = "idle"
    /\ todo = <<>>
    /\ units = <<>>
    /\ units0 = <<>>
    /\ ops = <<>>
    /\ said = <<>>

\* No comparison of processing orders is being made.
TrialIdle ==
    /\ trial = [det |-> <<>>, sub |-> <<>>, orderA |-> <<>>, orderB |-> <<>>]
    /\ trialOut = [a |-> <<>>, b |-> <<>>]
    /\ trialDone = {}

\* main has not started: nothing resolved, no call issued, nothing printed.
Fresh ==
    /\ pc = "start"
    /\ server_list = <<>>
    /\ reservations = <<>>
    /\ instance_ids = <<>>
    /\ idx = 0
    /\ info = ""
    /\ platform = ""
    /\ script = NoScript
    /\ document = ""
    /\ queries = <<>>
    /\ lookups = <<>>
    /\ submissions = <<>>
    /\ outcomes = <<>>
    /\ report = ""
    /\ exitCode = -1

Init ==
    /\ servers \in ServerInputs
    /\ services \in PipelineServiceInputs
    /\ action \in ActionInputs
    /\ inventory \in Fleets
    /\ Fresh
    /\ ScriptIdle
    /\ TrialIdle

\* Python's `not v` for a value of os.getenv: None or the empty string.
Falsy(v) == ~v.present \/ Len(v.val) = 0
FalsyAtom(v) == ~v.present \/ v.val = ""

\* A configuration check that forgets the action.
ConfigRejectedIgnoringAction == Falsy(servers) \/ Falsy(services)

\* The condition of main's configuration check.
ConfigRejected == Falsy(servers) \/ Falsy(services) \/ FalsyAtom(action)

\* The run ends: sys.exit(code) or an exception nothing catches (exit
\* status 1 with a traceback).
Exit(why, code) ==
    /\ report' = why
    /\ exitCode' = code
    /\ pc' = "exited"

\* main, lines 85-93: read the configuration, reject missing values, parse
\* the server names.
Validate ==
    /\ pc = "start"
    /\ IF ConfigRejected
       THEN /\ Exit("ValueError", 1)
            /\ UNCHANGED server_list
       ELSE /\ server_list' = ParseServers(servers.val)
            /\ pc' = "query_name"
            /\ UNCHANGED <<report, exitCode>>
    /\ UNCHANGED <<servers, services, action, inventory, reservations,
                   instance_ids, idx, info, platform, script, document, queries,
                   lookups, submissions, outcomes>>
    /\ UNCHANGED <<svars, tvars>>

\* A resolver that reports the failed query and ends the run with status 0.
ResolverFailsExitZero(kind) == Exit("Error describing instances", 0)

\* What a failed tag query does to the run: the resolver's except clause
\* prints and exits 1; anything it does not catch leaves main uncaught.
ResolverFails(kind) ==
    IF Catches(ResolverExcept, kind)
    THEN Exit("Error describing instances", 1)
    ELSE Exit("Traceback", 1)

\* An empty resolution that ends the run with status 0.
NoInstancesExitZero == Exit("No running instances found", 0)

\* main, lines 96-98: nothing resolved, the run says so and exits 1.
NoInstancesExit == Exit("No running instances found", 1)

\* get_instance_ids_by_name, lines 12-14: the query on tag:Name.
QueryByName ==
    /\ pc = "query_name"
    /\ \E res \in {"ok"} \cup ErrorKinds :
         /\ queries' = Append(queries, [filter |-> "tag:Name",
                                        values |-> server_list,
                                        result |-> res])
         /\ IF res = "ok"
            THEN /\ reservations' =
                        reservations \o DescribeByTag("tag:Name", server_list)
                 /\ pc' = "query_host"
                 /\ UNCHANGED <<report, exitCode>>
            ELSE /\ ResolverFails(res)
                 /\ UNCHANGED reservations
    /\ UNCHANGED <<servers, services, action, inventory, server_list,
                   instance_ids, idx, info, platform, script, document, lookups,
                   submissions, outcomes>>
    /\ UNCHANGED <<svars, tvars>>

\* get_instance_ids_by_name, lines 16-30, and main's check of the result
\* (lines 96-98): the query on tag:Hostname, the filter on "running", the
\* deduplication, and the exit when nothing is left.
QueryByHostname ==
    /\ pc = "query_host"
    /\ \E res \in {"ok"} \cup ErrorKinds :
         /\ queries' = Append(queries, [filter |-> "tag:Hostname",
                                        values |-> server_list,
                                        result |-> res])
         /\ IF res = "ok"
            THEN /\ reservations' =
                        reservations \o DescribeByTag("tag:Hostname", server_list)
                 /\ \E ids \in Deduplicated(RunningIds(reservations')) :
                        /\ instance_ids' = ids
                        /\ IF Len(ids) = 0
                           THEN /\ NoInstancesExit
                                /\ UNCHANGED idx
                           ELSE /\ pc' = "detect"
                                /\ idx' = 1
                                /\ UNCHANGED <<report, exitCode>>
            ELSE /\ ResolverFails(res)
                 /\ UNCHANGED <<reservations, instance_ids, idx>>
    /\ UNCHANGED <<servers, services, action, inventory, server_list,
                   info, platform, script, document, lookups, submissions, outcomes>>
    /\ UNCHANGED <<svars, tvars>>

\* A loop that submits once more to an instance whose first submission was
\* rejected.
NextInstanceRetrying ==
    IF /\ pc = "submit"
       /\ outcomes'[Len(outcomes')].status = "submitFailed"
       /\ \A k \in DOMAIN submissions :
              submissions[k].targets # <<instance_ids[idx]>>
    THEN /\ idx' = idx
         /\ pc' = "submit"
         /\ UNCHANGED <<report, exitCode>>
    ELSE IF idx < Len(instance_ids)
    THEN /\ idx' = idx + 1
         /\ pc' = "detect"
         /\ UNCHANGED <<report, exitCode>>
    ELSE /\ idx' = idx
         /\ pc' = "done"
         /\ exitCode' = 0
         /\ UNCHANGED report

\* The for loop moves to its next instance, or main returns (exit status 0)
\* after the last one.
NextInstance ==
    IF idx < Len(instance_ids)
    THEN /\ idx' = idx + 1
         /\ pc' = "detect"
         /\ UNCHANGED <<report, exitCode>>
    ELSE /\ idx' = idx
         /\ pc' = "done"
         /\ exitCode' = 0
         /\ UNCHANGED report

\* main, lines 104-116: look the instance up, read its platform, build the
\* script and pick the document; a lookup that raises is printed and the
\* loop continues with the next instance.
Detect ==
    /\ pc = "detect"
    /\ LET id == instance_ids[idx] IN
       \/ \E kind \in ErrorKinds :
            IF Catches(DetectExcept, kind)
            THEN /\ lookups' = Append(lookups, [id |-> id, result |-> "failed"])
                 /\ outcomes' = Append(outcomes,
                                  [id |-> id, status |-> "platformDetectFailed"])
                 /\ NextInstance
                 /\ UNCHANGED <<info, platform, script, document>>
            ELSE /\ lookups' = Append(lookups, [id |-> id, result |-> "failed"])
                 /\ Exit("Traceback", 1)
                 /\ UNCHANGED <<outcomes, idx, info, platform, script, document>>
       \/ \E attr \in PlatformAttrs :
            /\ lookups' = Append(lookups, [id |-> id, result |-> "ok"])
            /\ info' = attr
            /\ platform' = PlatformOf(info')
            /\ script' = ScriptFor(platform', services.val, action.val)
            /\ document' = DocumentFor(platform')
            /\ pc' = "submit"
            /\ UNCHANGED <<outcomes, idx, report, exitCode>>
    /\ UNCHANGED <<servers, services, action, inventory, server_list,
                   reservations, instance_ids, queries, submissions>>
    /\ UNCHANGED <<svars, tvars>>

\* main, lines 118-128: send the command to the one instance; a ClientError
\* is printed and the loop continues; any other exception leaves main.
Submit ==
    /\ pc = "submit"
    /\ LET id == instance_ids[idx] IN
       \E res \in {"ok"} \cup ErrorKinds :
         /\ submissions' = Append(submissions,
                              [targets |-> <<id>>, document |-> document,
                               script |-> script, result |-> res])
         /\ IF res = "ok"
            THEN /\ outcomes' = Append(outcomes, [id |-> id, status |-> "sent"])
                 /\ NextInstance
            ELSE IF Catches(SubmitExcept, res)
            THEN /\ outcomes' = Append(outcomes,
                                  [id |-> id, status |-> "submitFailed"])
                 /\ NextInstance
            ELSE /\ Exit("Traceback", 1)
                 /\ UNCHANGED <<outcomes, idx>>
    /\ UNCHANGED <<servers, services, action, inventory, server_list,
                   reservations, instance_ids, info, platform, script, document,
                   queries, lookups>>
    /\ UNCHANGED <<svars, tvars>>

Next == Validate \/ QueryByName \/ QueryByHostname \/ Detect \/ Submit

Spec == Init /\ [][Next]_vars

----------------------------------------------------------------------------
\* A generated script running on a target.

\* Characters of a service-list string: two letters, the comma that joins
\* the names, and a blank.
ServiceChars == {"a", "b", ",", " "}
ServiceStrings ==
    UNION { [1..n -> ServiceChars] : n \in 1..MaxLen }

\* Values of Action that pass main's check.
ScriptActions == Actions \cup {"Start", "reload"}

\* The services a target may have installed, and their states. The names
\* stand for unit names none of whose characters occur elsewhere in the
\* unit listing.
UnitNames == { <<"a">>, <<"b">>, <<"a", "b">> }
UnitStates == {"absent", "running", "stopped"}

\* The service `name` is installed on the target.
Installed(name) == name \in DOMAIN units /\ units[name] # "absent"

\* systemctl list-unit-files | grep -q "$svc": some line of the listing
\* contains the word.
InUnitListing(svc) ==
    \E u \in DOMAIN units : units[u] # "absent" /\ Contains(u, svc)

\* "{action}" = "start" in the shell script: exact comparison.
ShellActionIs(act, word) == act = word
\* "{action}" -eq "start" in the PowerShell script: -eq ignores case.
PowerShellActionIs(act, word) == Lower(act) = word

\* The state a service is left in by an operation that succeeded.
StateAfter(op) == IF op = "stop" THEN "stopped" ELSE "running"

\* One service-manager operation on `svc` and the line written after it:
\* it succeeds (`ok`) only on an installed service.
Operate(op, svc, ok, okMsg, failMsg) ==
    /\ ops' = Append(ops, [op |-> op, name |-> svc, ok |-> ok])
    /\ units' = IF ok THEN [units EXCEPT ![svc] = StateAfter(op)] ELSE units
    /\ said' = Append(said, [msg |-> IF ok THEN okMsg ELSE failMsg,
                             name |-> svc])

\* A line written without any operation.
Say(msg, svc) ==
    /\ said' = Append(said, [msg |-> msg, name |-> svc])
    /\ UNCHANGED <<ops, units>>

\* The loop moves on; the script ends after the last item.
Advance ==
    /\ todo' = Tail(todo)
    /\ spc' = IF Len(todo) > 1 THEN "loop" ELSE "done"

\* The pipeline's state while only a script run is looked at: a run whose
\* configuration was rejected.
PipelineIdle ==
    /\ servers = Unset
    /\ services = Unset
    /\ action = UnsetAtom
    /\ inventory = [i \in Ids |-> [name |-> <<"w">>, host |-> <<"w">>,
                                   state |-> "running"]]
    /\ Fresh

ScriptInit ==
    /\ platformAttr \in PlatformAttrs
    /\ \E svcs \in ServiceStrings, act \in ScriptActions :
         running = ScriptFor(PlatformOf(platformAttr), svcs, act)
    /\ spc = "start"
    /\ todo = <<>>
    /\ units \in [UnitNames -> UnitStates]
    /\ units0 = units
    /\ ops = <<>>
    /\ said = <<>>
    /\ PipelineIdle
    /\ TrialIdle

\* The first line of either script: the service list is split into the
\* items of the loop.
ScriptStart ==
    /\ spc = "start"
    /\ todo' = IF running.shell = "sh" THEN ShellWords(running.services)
               ELSE PowerShellItems(running.services)
    /\ spc' = IF Len(todo') > 0 THEN "loop" ELSE "done"
    /\ UNCHANGED <<platformAttr, running, units, units0, ops, said>>
    /\ UNCHANGED <<pvars, tvars>>

\* build_linux_script, lines 67-79: one pass of the for loop.
LinuxStep ==
    /\ spc = "loop"
    /\ running.shell = "sh"
    /\ LET svc == Head(todo)
           act == running.action
       IN IF InUnitListing(svc)
          THEN \E ok \in {Installed(svc), FALSE} :
                 IF ShellActionIs(act, "start")
                 THEN Operate("start", svc, ok, "Started", "Failed to start")
                 ELSE IF ShellActionIs(act, "stop")
                 THEN Operate("stop", svc, ok, "Stopped", "Failed to stop")
                 ELSE IF ShellActionIs(act, "restart")
                 THEN Operate("restart", svc, ok, "Restarted",
                              "Failed to restart")
                 ELSE UNCHANGED <<ops, units, said>>
          ELSE Say("not found", svc)
    /\ Advance
    /\ UNCHANGED <<platformAttr, running, units0>>
    /\ UNCHANGED <<pvars, tvars>>

\* build_windows_script, lines 36-60: one pass of the foreach loop. Any
\* cmdlet that fails throws (-ErrorAction Stop) into the catch block.
WindowsStep ==
    /\ spc = "loop"
    /\ running.shell = "powershell"
    /\ LET svc == Head(todo)
           act == running.action
       IN IF Installed(svc)
          THEN \E ok \in BOOLEAN :
                 IF PowerShellActionIs(act, "start")
                 THEN IF units[svc] # "running"
                      THEN Operate("start", svc, ok, "Started", "Error with")
                      ELSE Say("already running", svc)
                 ELSE IF PowerShellActionIs(act, "stop")
                 THEN IF units[svc] # "stopped"
                      THEN Operate("stop", svc, ok, "Stopped", "Error with")
                      ELSE Say("already stopped", svc)
                 ELSE IF PowerShellActionIs(act, "restart")
                 THEN Operate("restart", svc, ok, "Restarted", "Error with")
                 ELSE UNCHANGED <<ops, units, said>>
          ELSE Say("Error with", svc)
    /\ Advance
    /\ UNCHANGED <<platformAttr, running, units0>>
    /\ UNCHANGED <<pvars, tvars>>

ScriptNext == ScriptStart \/ LinuxStep \/ WindowsStep

ScriptSpec == ScriptInit /\ [][ScriptNext]_vars

----------------------------------------------------------------------------
\* The dispatch loop of main as a function of the processing order and of
\* what each instance's lookup and submission answer, applied to one fleet
\* in two orders.

CallResults == {"ok"} \cup ErrorKinds

RECURSIVE DispatchLoop(_, _, _)
\* main, lines 103-128: the outcome lines printed when the instances are
\* visited in `order`, the lookup of instance i answering det[i] and its
\* submission sub[i]. An exception no clause catches ends the loop.
DispatchLoop(order, det, sub) ==
    IF order = <<>> THEN <<>>
    ELSE LET id == Head(order) IN
         IF det[id] # "ok"
         THEN IF Catches(DetectExcept, det[id])
              THEN <<[id |-> id, status |-> "platformDetectFailed"]>>
                   \o DispatchLoop(Tail(order), det, sub)
              ELSE <<>>
         ELSE IF sub[id] = "ok"
         THEN <<[id |-> id, status |-> "sent"]>>
              \o DispatchLoop(Tail(order), det, sub)
         ELSE IF Catches(SubmitExcept, sub[id])
         THEN <<[id |-> id, status |-> "submitFailed"]>>
              \o DispatchLoop(Tail(order), det, sub)
         ELSE <<>>

\* A resolved fleet, what each of its instances answers, and two of the
\* orders list(set(...)) may give.
OrderInit ==
    /\ \E fleet \in (SUBSET Ids) \ {{}} :
         trial \in [det : [fleet -> CallResults],
                    sub : [fleet -> CallResults],
                    orderA : Deduplicated(Ascending(fleet)),
                    orderB : Deduplicated(Ascending(fleet))]
    /\ trialOut = [a |-> <<>>, b |-> <<>>]
    /\ trialDone = {}
    /\ PipelineIdle
    /\ ScriptIdle

\* The loop runs over the fleet in the first order.
RunA ==
    /\ "A" \notin trialDone
    /\ trialOut' = [trialOut EXCEPT
                      !.a = DispatchLoop(trial.orderA, trial.det, trial.sub)]
    /\ trialDone' = trialDone \cup {"A"}
    /\ UNCHANGED <<trial, pvars, svars>>

\* The loop runs over the fleet in the second order.
RunB ==
    /\ "B" \notin trialDone
    /\ trialOut' = [trialOut EXCEPT
                      !.b = DispatchLoop(trial.orderB, trial.det, trial.sub)]
    /\ trialDone' = trialDone \cup {"B"}
    /\ UNCHANGED <<trial, pvars, svars>>

OrderNext == RunA \/ RunB

OrderSpec == OrderInit /\ [][OrderNext]_vars

\* The pipeline under the scheduling of a sequential program: a step that
\* can be taken is taken.
FairSpec == Spec /\ WF_vars(Next)

----------------------------------------------------------------------------
\* Vocabulary of the properties.

\* The run of main is over.
Ended == pc \in {"done", "exited"}

\* No call has been issued to the fleet inventory or the command channel.
NoNetworkCall == queries = <<>> /\ lookups = <<>> /\ submissions = <<>>

\* The printed outcomes of instance i.
OutcomesOf(i) == { k \in DOMAIN outcomes : outcomes[k].id = i }

\* The calls issued for instance i.
LookupsOf(i) == { k \in DOMAIN lookups : lookups[k].id = i }
SubmissionsOf(i) ==
    { k \in DOMAIN submissions : submissions[k].targets = <<i>> }

\* A required value that is missing: not set, or set to nothing.
MissingText(v) == v.present = FALSE \/ v.val = <<>>
MissingWord(v) == v.present = FALSE \/ v.val = ""

\* The running instances of the fleet that carry one of the target names in
\* either tag.
RunningMatches ==
    { i \in Ids :
        /\ inventory[i].state = "running"
        /\ \E k \in 1..Len(server_list) :
              server_list[k] \in {inventory[i].name, inventory[i].host} }

\* The configuration names a recognised action.
ActionValid == action.present /\ action.val \in Actions

\* Both tag queries were answered.
Resolved ==
    /\ Len(queries) = 2
    /\ \A k \in 1..2 : queries[k].result = "ok"

\* A service list as the configuration defines it: distinct names joined by
\* commas, each name made of letters only.
Letters == {"a", "b"}
ListedServices(s) == SplitOn(s, ",")
WellFormedList(s) ==
    /\ \A k \in 1..Len(ListedServices(s)) :
          /\ ListedServices(s)[k] # <<>>
          /\ \A c \in Range(ListedServices(s)[k]) : c \in Letters
    /\ \A j, k \in 1..Len(ListedServices(s)) :
          j # k => ListedServices(s)[j] # ListedServices(s)[k]

\* The lines written about service `name`, and the operations issued on it.
SaidAbout(name) == { k \in DOMAIN said : said[k].name = name }
OpsOn(name) == { k \in DOMAIN ops : ops[k].name = name }
SuccessLines == {"Started", "Stopped", "Restarted"}
NotFoundLines == {"not found", "Error with"}

----------------------------------------------------------------------------
\* The properties.

\* C1: when the run is over and the resolved fleet was not empty, every
\* instance of the fleet has exactly one outcome, one of sent,
\* platformDetectFailed, submitFailed, whatever kind of failure the lookups
\* and submissions met.
C1_ExactlyOneOutcome ==
    (Ended /\ ActionValid /\ instance_ids # <<>>) =>
        \A i \in Range(instance_ids) :
            /\ Cardinality(OutcomesOf(i)) = 1
            /\ \A k \in OutcomesOf(i) :
                 outcomes[k].status \in
                     {"sent", "platformDetectFailed", "submitFailed"}

\* C2: when the run is over and some platform lookup failed, every instance
\* whose lookup failed has the outcome platformDetectFailed and no
\* submission, every other instance of the fleet has been submitted, and the
\* outcomes are in processing order.
C2_DetectFailureIsolated ==
    (Ended /\ ActionValid
       /\ \E k \in DOMAIN lookups : lookups[k].result = "failed") =>
        /\ \A i \in Range(instance_ids) :
             IF \E k \in LookupsOf(i) : lookups[k].result = "failed"
             THEN /\ \A k \in OutcomesOf(i) :
                       outcomes[k].status = "platformDetectFailed"
                  /\ OutcomesOf(i) # {}
                  /\ SubmissionsOf(i) = {}
             ELSE SubmissionsOf(i) # {}
        /\ Len(outcomes) = Len(instance_ids)
        /\ \A k \in DOMAIN outcomes : outcomes[k].id = instance_ids[k]

\* C3: an instance whose submission failed has the outcome submitFailed, and
\* when the run is over every instance after it has been looked up.
C3_SubmitFailureIsolated ==
    \A k \in DOMAIN submissions :
        (ActionValid /\ submissions[k].result # "ok") =>
            /\ \E o \in DOMAIN outcomes :
                 /\ outcomes[o].id = submissions[k].targets[1]
                 /\ outcomes[o].status = "submitFailed"
            /\ Ended => \A i \in Range(instance_ids) : LookupsOf(i) # {}

\* C4: when the configured action is not exactly start, stop or restart, no
\* call is ever issued: no tag query, no lookup, no submission.
C4_InvalidActionRejected ==
    ~(action.present /\ action.val \in Actions) => NoNetworkCall

\* C7: when either tag query fails, whatever the failure and whatever the
\* first query returned, the run is over with a report and exit status 1,
\* nothing is resolved, and no lookup or submission is issued.
C7_ResolverFailsFast ==
    (\E k \in DOMAIN queries : queries[k].result # "ok") =>
        /\ pc = "exited"
        /\ exitCode = 1
        /\ report \in {"Error describing instances", "Traceback"}
        /\ instance_ids = <<>>
        /\ lookups = <<>>
        /\ submissions = <<>>

\* C7 witness: the second query failed after the first one had returned
\* instances.
C7_Witness ==
    /\ Len(queries) = 2
    /\ queries[1].result = "ok"
    /\ queries[2].result # "ok"
    /\ reservations # <<>>
    /\ pc = "exited"

\* C8: when both queries were answered and no running instance carries a
\* target name, the run reports that no instance was found, exits with
\* status 1, and the command channel is never called.
C8_EmptyResolutionFatal ==
    (Resolved /\ RunningMatches = {}) =>
        /\ pc = "exited"
        /\ report = "No running instances found"
        /\ exitCode = 1
        /\ submissions = <<>>
        /\ lookups = <<>>

\* C8 witness: the names match an instance that is not running, and the run
\* has ended on it.
C8_Witness ==
    /\ Resolved
    /\ RunningMatches = {}
    /\ reservations # <<>>
    /\ pc = "exited"

\* C9: when server names, service list or action is missing, the run ends
\* with the configuration error and exit status 1 and issues no call.
C9_MissingConfigFatal ==
    (MissingText(servers) \/ MissingText(services) \/ MissingWord(action)) =>
        /\ NoNetworkCall
        /\ pc \in {"start", "exited"}
        /\ pc = "exited" => (report = "ValueError" /\ exitCode = 1)

\* C9 witness: a run that ended because only the action was missing.
C9_Witness ==
    /\ ~MissingText(servers)
    /\ ~MissingText(services)
    /\ MissingWord(action)
    /\ pc = "exited"

\* C5: the shell script generated for action start and a list of two or more
\* names, once it has run, has written a line about each listed name.
C5_EachServiceReported ==
    (/\ spc = "done"
     /\ running.shell = "sh"
     /\ running.action = "start"
     /\ WellFormedList(running.services)
     /\ Len(ListedServices(running.services)) >= 2) =>
        \A k \in 1..Len(ListedServices(running.services)) :
            SaidAbout(ListedServices(running.services)[k]) # {}

\* C6: on either platform, a pass of the loop over an installed service that
\* is already in the state the action asks for (running for start, stopped
\* for stop) issues no operation, leaves the services as they are and
\* writes "already running" / "already stopped" for it.
C6_IdempotentSkip ==
    [][ (/\ spc = "loop"
         /\ Installed(Head(todo))
         /\ \/ running.action = "start" /\ units[Head(todo)] = "running"
            \/ running.action = "stop" /\ units[Head(todo)] = "stopped") =>
        (/\ ops' = ops
         /\ units' = units
         /\ said' = Append(said,
                [msg |-> IF running.action = "start" THEN "already running"
                         ELSE "already stopped",
                 name |-> Head(todo)])) ]_vars

\* A listed service is absent from the target: no line of the unit listing
\* contains it (shell), the lookup by name fails (PowerShell).
Absent(name) ==
    IF running.shell = "sh" THEN ~InUnitListing(name) ELSE ~Installed(name)

\* C10: for each of the three actions and both platforms, once the script
\* has run on a target that lacks some listed service, every listed service
\* that is absent has a not-found or error line, no operation and no success
\* line, and every other listed service has been processed too.
C10_AbsentServiceReported ==
    (/\ spc = "done"
     /\ running.action \in Actions
     /\ WellFormedList(running.services)
     /\ \E k \in 1..Len(ListedServices(running.services)) :
           Absent(ListedServices(running.services)[k])) =>
        \A k \in 1..Len(ListedServices(running.services)) :
            LET name == ListedServices(running.services)[k]
            IN IF Absent(name)
               THEN /\ \E j \in SaidAbout(name) : said[j].msg \in NotFoundLines
                    /\ OpsOn(name) = {}
                    /\ \A j \in SaidAbout(name) : said[j].msg \notin SuccessLines
               ELSE SaidAbout(name) # {}

\* C11: for action restart on either platform, once the script has run,
\* every listed service that is installed has had a restart issued,
\* whether it was running or stopped, and no "already running" /
\* "already stopped" line has been written.
C11_RestartUnconditional ==
    (/\ spc = "done"
     /\ running.action = "restart"
     /\ WellFormedList(running.services)) =>
        /\ \A k \in 1..Len(ListedServices(running.services)) :
             LET name == ListedServices(running.services)[k]
             IN (name \in DOMAIN units0 /\ units0[name] # "absent") =>
                    \E j \in OpsOn(name) : ops[j].op = "restart"
        /\ \A j \in DOMAIN said :
             said[j].msg \notin {"already running", "already stopped"}

\* The inventory record names Windows as the platform.
SaysWindows(attr) == attr \in {"windows", "Windows"}

\* A script and a document of the flavour the record `attr` calls for,
\* carrying the configured service list and action.
FlavourFor(attr, scr, doc) ==
    /\ scr.services = services.val
    /\ scr.action = action.val
    /\ IF SaysWindows(attr)
       THEN scr.shell = "powershell" /\ doc = "AWS-RunPowerShellScript"
       ELSE attr = "absent" /\ scr.shell = "sh" /\ doc = "AWS-RunShellScript"

\* C12: after a successful lookup the script and document about to be
\* submitted are the PowerShell pair when the record says Windows and the
\* shell pair when the attribute is absent; the submission last issued
\* carried the pair its instance's record calls for; and no submission
\* ever carried a mismatched pair.
C12_PlatformDocumentAgree ==
    /\ pc = "submit" => FlavourFor(info, script, document)
    /\ (pc # "submit" /\ submissions # <<>>) =>
           FlavourFor(info, submissions[Len(submissions)].script,
                      submissions[Len(submissions)].document)
    /\ \A k \in DOMAIN submissions :
           (submissions[k].script.shell = "powershell")
               <=> (submissions[k].document = "AWS-RunPowerShellScript")

\* C12 witness: a shell submission for an instance without the attribute
\* was followed by a PowerShell submission for one recorded as "Windows".
C12_Witness ==
    /\ Len(submissions) = 2
    /\ submissions[1].document = "AWS-RunShellScript"
    /\ submissions[2].document = "AWS-RunPowerShellScript"
    /\ info = "Windows"
    /\ pc = "done"

\* C13: every resolved instance is running in the fleet inventory.
C13_OnlyRunningResolved ==
    \A k \in DOMAIN instance_ids :
        inventory[instance_ids[k]].state = "running"

\* C13 witness: the queries returned an instance that is not running, and
\* the resolved fleet is not empty.
C13_Witness ==
    /\ instance_ids # <<>>
    /\ \E r \in DOMAIN reservations : \E k \in DOMAIN reservations[r] :
           reservations[r][k].State # "running"

\* C14: the resolved identifiers are pairwise distinct, and no instance is
\* looked up or submitted to more than once.
C14_NoDuplicateIds ==
    /\ \A j, k \in DOMAIN instance_ids :
           j # k => instance_ids[j] # instance_ids[k]
    /\ \A j, k \in DOMAIN lookups :
           lookups[j].id = lookups[k].id => j = k
    /\ \A j, k \in DOMAIN submissions :
           submissions[j].targets = submissions[k].targets => j = k

\* C14 witness: a running instance was returned by both queries and the
\* dispatch loop has finished.
C14_Witness ==
    /\ pc = "done"
    /\ \E j, k \in DOMAIN RunningIds(reservations) :
           j # k /\ RunningIds(reservations)[j] = RunningIds(reservations)[k]

\* C15: once both queries were answered, the resolved set is exactly the
\* set of running instances carrying a target name in either tag.
C15_ResolutionComplete ==
    Resolved =>
        \A i \in Ids :
            InValues(i, instance_ids) <=>
                /\ inventory[i].state = "running"
                /\ \/ InValues(inventory[i].name, server_list)
                   \/ InValues(inventory[i].host, server_list)

\* C15 witness: the only running match carries a target name in its host
\* name tag and not in its display name tag, and it is the resolved fleet.
C15_Witness ==
    /\ Resolved
    /\ \E i \in Ids :
         /\ ~InValues(inventory[i].name, server_list)
         /\ InValues(inventory[i].host, server_list)
         /\ instance_ids = <<i>>

\* C16: a run that resolved a non-empty fleet ends with exit status 0 at the
\* end of the loop, whatever failed for its instances.
C16_ExitCodeUnaffected ==
    (Ended /\ ActionValid /\ instance_ids # <<>>) =>
        (exitCode = 0 /\ pc = "done")

\* The status an outcome list gives instance i, "none" when it has no line.
StatusIn(out, i) ==
    IF \E k \in DOMAIN out : out[k].id = i
    THEN out[CHOOSE k \in DOMAIN out : out[k].id = i].status
    ELSE "none"

\* C17: two runs over the same fleet with the same per-instance lookup and
\* submission results, in any two processing orders, give every instance
\* the same outcome.
C17_OrderIndependent ==
    trialDone = {"A", "B"} =>
        \A i \in DOMAIN trial.det :
            StatusIn(trialOut.a, i) = StatusIn(trialOut.b, i)

\* C18: every instance is looked up at most once and submitted to at most
\* once, so a failed submission is never issued again; every submission
\* targets exactly one instance, a resolved one whose lookup succeeded.
C18_NoRetries ==
    /\ Len(submissions) <= Len(lookups)
    /\ Len(lookups) <= Len(instance_ids)
    /\ \A k \in DOMAIN lookups : lookups[k].id = instance_ids[k]
    /\ \A k \in DOMAIN submissions :
         /\ Len(submissions[k].targets) = 1
         /\ InValues(submissions[k].targets[1], instance_ids)
         /\ \E j \in DOMAIN lookups :
                /\ lookups[j].id = submissions[k].targets[1]
                /\ lookups[j].result = "ok"
         /\ \A j \in DOMAIN submissions :
                submissions[j].targets = submissions[k].targets => j = k

\* C18 witness: a submission was rejected and the loop went on to the end
\* of a fleet of several instances.
C18_Witness ==
    /\ pc = "done"
    /\ Len(instance_ids) >= 2
    /\ submissions # <<>>
    /\ submissions[1].result = "ClientError"
    /\ Len(lookups) = Len(instance_ids)

\* C19: a run with a valid configuration and a non-empty resolution that is
\* over has reached the end of the loop, having visited every resolved
\* instance and left none between lookup and outcome.
C19_LoopReachesEnd ==
    (Ended /\ ActionValid /\ instance_ids # <<>>) =>
        /\ pc = "done"
        /\ \A i \in Range(instance_ids) :
             LookupsOf(i) # {} /\ OutcomesOf(i) # {}

\* C19, the part that holds: every run is eventually over.
C19_Terminates == <>Ended

====
